---------------------------- MODULE Spec2Model ----------------------------
(***************************************************************************)
(* bevy_time::Time (crates/bevy_time/src/time.rs): one timestamp sample    *)
(* per tick is fanned out into the raw, virtual, fixed and current clocks. *)
(*                                                                         *)
(* Durations and instants are counted in ticks of 1/12 s.  maximum_delta   *)
(* (333 ms) is 4 ticks; the fixed period is scaled up to 3 ticks, which    *)
(* keeps the order fixed_period < maximum_delta < 1 s / 2 of the defaults  *)
(* and leaves a sub-period remainder to accumulate.                        *)
(* A Clock is the record of its Duration fields and its modulus; the f32   *)
(* and f64 fields of a Clock are functions of these and are not carried.   *)
(* Option<Instant> is the set of its values: {} is None, {i} is Some(i).   *)
(* The f64 speed is the pair <<numerator, denominator>> of its value.      *)
(***************************************************************************)
EXTENDS Integers, FiniteSets, Sequences, TLC

\* ------------------------------------------------------------------ units
\* Duration::from_secs(1), in ticks
Second == 12
\* Default: fixed_period = Duration::from_secs_f32(1. / 60.)
FixedPeriod == 3
\* Default: maximum_delta = Some(Duration::from_millis(333))
MaximumDelta == 4
\* Default: wrap_seconds = 3600 and Clock::new(3600)
DefaultWrapSeconds == 3600

\* ----------------------------------------------------------------- bounds
\* number of update_with_instant calls in one behaviour
MaxUpdates == 2
\* the Instant handed to Time::new; only differences of instants are used
Startups == {1}
\* real time between two successive timestamps: zero, one tick, just above
\* maximum_delta, and one second
Gaps == {0, 1, MaximumDelta + 1, Second}

\* ratios handed to set_relative_speed_f64: 0.5, 1.0, 2.0, and two ratios
\* the asserts refuse (-1.0, and "inf" for a non-finite one)
ValidRatios == {<<1, 2>>, <<1, 1>>, <<2, 1>>}
Ratios == ValidRatios \cup {<<-1, 1>>, <<1, 0>>}

\* periods handed to set_wrap_period: 1 s, 3 s, zero, and 1 s plus one tick
WrapPeriods == {Second, 3 * Second, 0, Second + 1}

VARIABLES
    startup, first_update, last_update,
    paused, relative_speed, wrap_seconds,
    fixed_accumulated,
    raw_clock, virtual_clock, fixed_clock, current_clock,
    lastOp,      \* the operation that produced this state, with its outcome
    updates,     \* number of update_with_instant calls so far
    drain,       \* the drain since the last update: accumulator and fixed
                 \* elapsed right after it, whether the accumulator held less
                 \* than one period right before it, and whether expend_fixed
                 \* has returned false since
    seen         \* elapsed() and raw_elapsed() as read right after the last update

vars == <<startup, first_update, last_update, paused, relative_speed,
          wrap_seconds, fixed_accumulated, raw_clock, virtual_clock,
          fixed_clock, current_clock, lastOp, updates, drain, seen>>

\* ------------------------------------------------------------------ Clock
\* Clock::new(wrap_seconds)
Clock_new(w) ==
    [delta |-> 0, elapsed |-> 0, elapsed_wrapped |-> 0, wrap_seconds |-> w]

\* Clock::advance_by(delta)
advance_by(c, d) ==
    [delta           |-> d,
     elapsed         |-> c.elapsed + d,
     elapsed_wrapped |-> (c.elapsed + d) % (c.wrap_seconds * Second),
     wrap_seconds    |-> c.wrap_seconds]

\* ------------------------------------------------------------- arithmetic
\* Option::unwrap_or
unwrap_or(opt, dflt) == IF opt = {} THEN dflt ELSE CHOOSE x \in opt : TRUE

\* Duration::mul_f64: the product, converted back to a Duration.  The
\* conversion truncates or rounds to nearest depending on the toolchain.
mul_f64(d, r) ==
    {(d * r[1]) \div r[2], (2 * d * r[1] + r[2]) \div (2 * r[2])}

\* a subtraction that refuses an exact period
checked_sub_strict(a, b) == IF a > b THEN {a - b} ELSE {}

\* a subtraction that saturates at zero instead of refusing
checked_sub_saturating(a, b) == {IF a >= b THEN a - b ELSE 0}

\* Duration::checked_sub: None when the result would be negative
checked_sub(a, b) == IF a >= b THEN {a - b} ELSE {}

\* std::cmp::min
min(a, b) == IF a <= b THEN a ELSE b

\* a sign check that lets every ratio through
non_negative_unchecked(r) == TRUE

\* f64::is_finite and ratio >= 0.0
is_finite(r) == r[2] # 0
non_negative(r) == r[1] >= 0

\* a fixed period of Duration::ZERO
fixed_period_zero == FixedPeriod - FixedPeriod

\* ------------------------------------------------------------------- Time
\* the maximum_delta field: no operation assigns it after Default
maximum_delta == {MaximumDelta}
\* the fixed_period field: no operation assigns it after Default
fixed_period == FixedPeriod

\* Time::new(startup), over Default::default()
Init ==
    /\ startup \in Startups
    /\ first_update = {}
    /\ last_update = {}
    /\ paused = FALSE
    /\ relative_speed = <<1, 1>>
    /\ wrap_seconds = DefaultWrapSeconds
    /\ fixed_accumulated = 0
    /\ raw_clock = Clock_new(DefaultWrapSeconds)
    /\ virtual_clock = Clock_new(DefaultWrapSeconds)
    /\ fixed_clock = Clock_new(DefaultWrapSeconds)
    /\ current_clock = Clock_new(DefaultWrapSeconds)
    /\ lastOp = "new"
    /\ updates = 0
    /\ drain = [acc |-> 0, fixed |-> 0, drained |-> TRUE, exhausted |-> FALSE]
    /\ seen = [elapsed |-> 0, raw_elapsed |-> 0]

\* a scaling that forgets the pause flag
scaled_delta_unpaused(raw_delta) ==
    IF relative_speed # <<1, 1>> THEN mul_f64(raw_delta, relative_speed)
    ELSE {raw_delta}
\* a scaling that forgets the speed
scaled_delta_unscaled(raw_delta) == IF paused THEN {0} ELSE {raw_delta}

\* the scaled deltas update_with_instant may compute from raw_delta
scaled_delta(raw_delta) ==
    IF paused THEN {0}
    ELSE IF relative_speed # <<1, 1>> THEN mul_f64(raw_delta, relative_speed)
    ELSE {raw_delta}

\* no clamp at all
clamp_none(scaled) == scaled

\* the maximum_delta clamp
clamp(scaled) ==
    IF maximum_delta # {} THEN min(scaled, unwrap_or(maximum_delta, 0))
    ELSE scaled

\* update_with_instant skipping the assignment of current_clock while paused
current_after_update_unless_paused(virt) ==
    IF paused THEN current_clock ELSE virt
\* update_with_instant leaving the raw track in current_clock
current_after_update_raw(virt) == raw_clock

\* the clock update_with_instant leaves in current_clock
current_after_update(virt) == virt

\* an update that advances the raw clock by the scaled and clamped delta
update_with_instant_raw_scaled(instant) ==
    LET raw_delta == instant - unwrap_or(last_update, startup)
    IN  \E scaled \in scaled_delta(raw_delta) :
          LET delta == clamp(scaled)
              raw1  == advance_by(raw_clock, delta)
              virt1 == advance_by(virtual_clock, delta)
              first == last_update = {}
              raw2  == IF first THEN advance_by(raw1, 0) ELSE raw1
              virt2 == IF first THEN advance_by(virt1, 0) ELSE virt1
          IN  /\ raw_clock' = raw2
              /\ virtual_clock' = virt2
              /\ fixed_accumulated' = fixed_accumulated + delta
              /\ first_update' = IF first THEN {instant} ELSE first_update
              /\ last_update' = {instant}
              /\ current_clock' = virt2
              /\ drain' = [acc |-> fixed_accumulated + delta,
                           fixed |-> fixed_clock.elapsed,
                           drained |-> fixed_accumulated < fixed_period,
                           exhausted |-> FALSE]
              /\ seen' = [elapsed |-> virt2.elapsed,
                          raw_elapsed |-> raw2.elapsed]
              /\ lastOp' = "update"
              /\ updates' = updates + 1
              /\ UNCHANGED <<startup, paused, relative_speed, wrap_seconds,
                             fixed_clock>>

\* an update that records its timestamp in last_update only the first time
update_with_instant_stale_last(instant) ==
    LET raw_delta == instant - unwrap_or(last_update, startup)
        raw1 == advance_by(raw_clock, raw_delta)
    IN  \E scaled \in scaled_delta(raw_delta) :
          LET delta == clamp(scaled)
              virt1 == advance_by(virtual_clock, delta)
              first == last_update = {}
              raw2  == IF first THEN advance_by(raw1, 0) ELSE raw1
              virt2 == IF first THEN advance_by(virt1, 0) ELSE virt1
          IN  /\ raw_clock' = raw2
              /\ virtual_clock' = virt2
              /\ fixed_accumulated' = fixed_accumulated + delta
              /\ first_update' = IF first THEN {instant} ELSE first_update
              /\ last_update' = IF first THEN {instant} ELSE last_update
              /\ current_clock' = virt2
              /\ drain' = [acc |-> fixed_accumulated + delta,
                           fixed |-> fixed_clock.elapsed,
                           drained |-> fixed_accumulated < fixed_period,
                           exhausted |-> FALSE]
              /\ seen' = [elapsed |-> virt2.elapsed,
                          raw_elapsed |-> raw2.elapsed]
              /\ lastOp' = "update"
              /\ updates' = updates + 1
              /\ UNCHANGED <<startup, paused, relative_speed, wrap_seconds,
                             fixed_clock>>

\* Time::update_with_instant(instant)
update_with_instant(instant) ==
    LET raw_delta == instant - unwrap_or(last_update, startup)
        raw1 == advance_by(raw_clock, raw_delta)
    IN  \E scaled \in scaled_delta(raw_delta) :
          LET delta == clamp(scaled)
              virt1 == advance_by(virtual_clock, delta)
              first == last_update = {}
              raw2  == IF first THEN advance_by(raw1, 0) ELSE raw1
              virt2 == IF first THEN advance_by(virt1, 0) ELSE virt1
          IN  /\ raw_clock' = raw2
              /\ virtual_clock' = virt2
              /\ fixed_accumulated' = fixed_accumulated + delta
              /\ first_update' = IF first THEN {instant} ELSE first_update
              /\ last_update' = {instant}
              /\ current_clock' = current_after_update(virt2)
              /\ drain' = [acc |-> fixed_accumulated + delta,
                           fixed |-> fixed_clock.elapsed,
                           drained |-> fixed_accumulated < fixed_period,
                           exhausted |-> FALSE]
              /\ seen' = [elapsed |-> current_after_update(virt2).elapsed,
                          raw_elapsed |-> raw2.elapsed]
              /\ lastOp' = "update"
              /\ updates' = updates + 1
              /\ UNCHANGED <<startup, paused, relative_speed, wrap_seconds,
                             fixed_clock>>

\* the host's tick: a timestamp at or after the previous one
Update ==
    /\ updates < MaxUpdates
    /\ \E g \in Gaps : update_with_instant(unwrap_or(last_update, startup) + g)

\* Time::expend_fixed()
expend_fixed ==
    IF checked_sub(fixed_accumulated, fixed_period) # {}
    THEN LET new_value ==
                 unwrap_or(checked_sub(fixed_accumulated, fixed_period), 0)
             fixed1 == advance_by(fixed_clock, fixed_period)
         IN  /\ fixed_accumulated' = new_value
             /\ fixed_clock' = fixed1
             /\ current_clock' = fixed1
             /\ lastOp' = "expend_true"
             /\ UNCHANGED <<startup, first_update, last_update, paused,
                            relative_speed, wrap_seconds, raw_clock,
                            virtual_clock, updates, drain, seen>>
    ELSE /\ current_clock' = virtual_clock
         /\ lastOp' = "expend_false"
         /\ drain' = [drain EXCEPT !.exhausted = TRUE]
         /\ UNCHANGED <<startup, first_update, last_update, paused,
                        relative_speed, wrap_seconds, fixed_accumulated,
                        raw_clock, virtual_clock, fixed_clock, updates,
                        seen>>

\* a set_wrap_period that does not hand the modulus to fixed_clock
set_wrap_period_skips_fixed(wrap_period) ==
    IF wrap_period = 0 \/ wrap_period % Second # 0
    THEN /\ lastOp' = "set_wrap_period_panic"
         /\ UNCHANGED <<startup, first_update, last_update, paused,
                        relative_speed, wrap_seconds, fixed_accumulated,
                        raw_clock, virtual_clock, fixed_clock, current_clock,
                        updates, drain, seen>>
    ELSE LET secs == wrap_period \div Second
         IN  /\ wrap_seconds' = secs
             /\ raw_clock' = [raw_clock EXCEPT !.wrap_seconds = secs]
             /\ virtual_clock' = [virtual_clock EXCEPT !.wrap_seconds = secs]
             /\ lastOp' = "set_wrap_period"
             /\ UNCHANGED <<startup, first_update, last_update, paused,
                            relative_speed, fixed_accumulated, fixed_clock,
                            current_clock, updates, drain, seen>>

\* a period check that only refuses the zero-length period
rejects_wrap_period_zero_only(wrap_period) == wrap_period = 0

\* the two asserts of set_wrap_period: a zero-length period, or one with a
\* sub-second part, is refused
rejects_wrap_period(wrap_period) ==
    wrap_period = 0 \/ wrap_period % Second # 0

\* Time::set_wrap_period(wrap_period); a failed assert changes nothing
set_wrap_period(wrap_period) ==
    IF rejects_wrap_period(wrap_period)
    THEN /\ lastOp' = "set_wrap_period_panic"
         /\ UNCHANGED <<startup, first_update, last_update, paused,
                        relative_speed, wrap_seconds, fixed_accumulated,
                        raw_clock, virtual_clock, fixed_clock, current_clock,
                        updates, drain, seen>>
    ELSE LET secs == wrap_period \div Second
         IN  /\ wrap_seconds' = secs
             /\ raw_clock' = [raw_clock EXCEPT !.wrap_seconds = secs]
             /\ virtual_clock' = [virtual_clock EXCEPT !.wrap_seconds = secs]
             /\ fixed_clock' = [fixed_clock EXCEPT !.wrap_seconds = secs]
             /\ lastOp' = "set_wrap_period"
             /\ UNCHANGED <<startup, first_update, last_update, paused,
                            relative_speed, fixed_accumulated, current_clock,
                            updates, drain, seen>>

SetWrapPeriod == \E p \in WrapPeriods : set_wrap_period(p)

\* Time::set_relative_speed_f64(ratio); a failed assert changes nothing
set_relative_speed_f64(ratio) ==
    IF ~is_finite(ratio) \/ ~non_negative(ratio)
    THEN /\ lastOp' = "set_relative_speed_panic"
         /\ UNCHANGED <<startup, first_update, last_update, paused,
                        relative_speed, wrap_seconds, fixed_accumulated,
                        raw_clock, virtual_clock, fixed_clock, current_clock,
                        updates, drain, seen>>
    ELSE /\ relative_speed' = ratio
         /\ lastOp' = "set_relative_speed"
         /\ UNCHANGED <<startup, first_update, last_update, paused,
                        wrap_seconds, fixed_accumulated, raw_clock,
                        virtual_clock, fixed_clock, current_clock, updates,
                        drain, seen>>

SetRelativeSpeed == \E r \in Ratios : set_relative_speed_f64(r)

\* Time::pause()
pause ==
    /\ paused' = TRUE
    /\ lastOp' = "pause"
    /\ UNCHANGED <<startup, first_update, last_update, relative_speed,
                   wrap_seconds, fixed_accumulated, raw_clock, virtual_clock,
                   fixed_clock, current_clock, updates, drain, seen>>

\* Time::unpause()
unpause ==
    /\ paused' = FALSE
    /\ lastOp' = "unpause"
    /\ UNCHANGED <<startup, first_update, last_update, relative_speed,
                   wrap_seconds, fixed_accumulated, raw_clock, virtual_clock,
                   fixed_clock, current_clock, updates, drain, seen>>

\* ------------------------------------------------------------- accessors
\* Time::delta, Time::elapsed, Time::elapsed_wrapped
delta == current_clock.delta
elapsed == current_clock.elapsed
elapsed_wrapped == current_clock.elapsed_wrapped
\* Time::raw_delta, Time::raw_elapsed
raw_delta == raw_clock.delta
raw_elapsed == raw_clock.elapsed
\* Time::wrap_period
wrap_period == wrap_seconds * Second
\* a speed accessor that reports the stored multiplier even while paused
relative_speed_f64_stored == relative_speed

\* Time::relative_speed_f64
relative_speed_f64 == IF paused THEN <<0, 1>> ELSE relative_speed

Next ==
    \/ Update
    \/ expend_fixed
    \/ SetWrapPeriod
    \/ SetRelativeSpeed
    \/ pause
    \/ unpause

Spec == Init /\ [][Next]_vars

\* The host's fixed-step consumer calls expend_fixed in a loop after each
\* update until it returns false, so an expend_fixed call that would change
\* the state is never postponed forever.
SpecFair == Spec /\ WF_vars(expend_fixed)

\* ----------------------------------------------------------------- claims
\* the instant of the previous update, or startup before the first one
previous_instant == unwrap_or(last_update, startup)
\* the Duration fields of a Clock, without its modulus
Fields(c) == <<c.delta, c.elapsed, c.elapsed_wrapped>>
\* raw_gap * ratio, as a real number, is at least bound: both conversions of
\* the product to a Duration are then at least bound
ScaledAtLeast(raw_gap, ratio, bound) == raw_gap * ratio[1] >= bound * ratio[2]
\* raw_gap * ratio, as a real number, is at most bound
ScaledAtMost(raw_gap, ratio, bound) == raw_gap * ratio[1] <= bound * ratio[2]

\* C1: on a Time left as constructed (pause off, speed 1), the first update
\* at T1 gives delta() = raw_delta() = 0 and elapsed() = raw_elapsed() =
\* T1 - startup, and the second update at T2 gives delta() = raw_delta() =
\* T2 - T1.
C1_FirstTickZeroing ==
    [][(lastOp' = "update" /\ ~paused /\ relative_speed = <<1, 1>>) =>
         /\ updates' = 1 =>
              /\ delta' = 0
              /\ raw_delta' = 0
              /\ elapsed' = previous_instant' - startup
              /\ raw_elapsed' = previous_instant' - startup
         /\ updates' = 2 =>
              /\ delta' = previous_instant' - previous_instant
              /\ raw_delta' = previous_instant' - previous_instant]_vars

\* C2: when expend_fixed returns false, 0 <= fixed_accumulated < fixed_period
\* and fixed_clock.elapsed has grown, since the last update, by the whole
\* periods of the accumulator that update left:
\* floor(accumulated / fixed_period) * fixed_period.
C2_FixedStepConservation ==
    lastOp = "expend_false" =>
        /\ 0 <= fixed_accumulated
        /\ fixed_accumulated < fixed_period
        /\ fixed_clock.elapsed - drain.fixed
             = (drain.acc \div fixed_period) * fixed_period

\* a drain of two periods that leaves a remainder in the accumulator
C2_Witness ==
    /\ lastOp = "expend_false"
    /\ drain.acc >= 2 * fixed_period
    /\ fixed_accumulated > 0
    /\ fixed_clock.elapsed - drain.fixed >= 2 * fixed_period

\* C3: elapsed() and raw_elapsed() read right after an update are at least
\* what they were right after the previous update, whatever was called in
\* between.
C3_MonotonicAcrossUpdates ==
    [][lastOp' = "update" =>
         /\ elapsed' >= seen.elapsed
         /\ raw_elapsed' >= seen.raw_elapsed]_vars

\* a second update after a fixed step was expended and time was paused
C3_Witness ==
    /\ lastOp = "update"
    /\ updates = 2
    /\ fixed_clock.elapsed > 0
    /\ elapsed > fixed_clock.elapsed
    /\ raw_elapsed > elapsed

\* C4: no operation makes elapsed() smaller.
C4_ElapsedNeverDecreases == [][elapsed' >= elapsed]_vars

\* C5: an update made while paused gives delta() = 0 and relative_speed() = 0,
\* leaves elapsed() as it was read after the previous update, and adds the
\* whole real gap to raw_elapsed().
C5_Pause ==
    [][(lastOp' = "update" /\ paused') =>
         /\ delta' = 0
         /\ relative_speed_f64' = <<0, 1>>
         /\ elapsed' = seen.elapsed
         /\ raw_elapsed' = seen.raw_elapsed
                             + (previous_instant' - previous_instant)]_vars

\* a paused second update over a real gap, after virtual time had advanced
C5_Witness ==
    /\ lastOp = "update"
    /\ paused
    /\ updates = 2
    /\ raw_delta > 0
    /\ elapsed > 0
    /\ relative_speed # <<1, 1>>

\* C6: after an update with pause off and speed r, when raw_delta() * r does
\* not exceed maximum_delta, delta() is raw_delta() * r to the resolution of
\* a Duration (less than one unit away), and is raw_delta() when r is 1.
C6_SpeedScaling ==
    (/\ lastOp = "update"
     /\ ~paused
     /\ ScaledAtMost(raw_delta, relative_speed, MaximumDelta)) =>
        /\ relative_speed[2] * delta - relative_speed[1] * raw_delta
             < relative_speed[2]
        /\ relative_speed[1] * raw_delta - relative_speed[2] * delta
             < relative_speed[2]
        /\ relative_speed = <<1, 1>> => delta = raw_delta

\* an update at double speed over one tick of real time
C6_Witness ==
    /\ lastOp = "update"
    /\ ~paused
    /\ relative_speed = <<2, 1>>
    /\ raw_delta = 1
    /\ delta = 2

\* C7: on a Time whose only changed setting is a speed of 2.0, an update one
\* second after the previous update gives delta() = 2 s and raw_delta() =
\* 1 s and adds 2 s to elapsed() and 1 s to raw_elapsed().
C7_RelativeSpeedTest ==
    [][(/\ lastOp' = "update"
        /\ last_update # {}
        /\ ~paused
        /\ relative_speed = <<2, 1>>
        /\ wrap_seconds = DefaultWrapSeconds
        /\ previous_instant' - previous_instant = Second) =>
         /\ delta' = 2 * Second
         /\ raw_delta' = Second
         /\ elapsed' = seen.elapsed + 2 * Second
         /\ raw_elapsed' = seen.raw_elapsed + Second]_vars

C9_WrappingTest ==
    lastOp = "update" =>
        /\ elapsed_wrapped = elapsed % wrap_period
        /\ (/\ wrap_seconds = 3
            /\ virtual_clock.wrap_seconds = 3
            /\ ~paused
            /\ relative_speed = <<1, 1>>
            /\ last_update = {startup + updates * Second}) =>
               elapsed_wrapped = (updates % 3) * Second

\* C10 as stated: current_clock equals virtual_clock or fixed_clock in every
\* field.
C10_CurrentEqualsVirtualOrFixed ==
    \/ current_clock = virtual_clock
    \/ current_clock = fixed_clock

\* C10, amended: current_clock equals virtual_clock or fixed_clock in delta,
\* elapsed and elapsed_wrapped; its wrap_seconds is the one it was copied
\* with.
C10_CurrentTracksVirtualOrFixed ==
    \/ Fields(current_clock) = Fields(virtual_clock)
    \/ Fields(current_clock) = Fields(fixed_clock)

\* current_clock holds the fixed track with a modulus that was since changed
C10_Witness ==
    /\ lastOp = "set_wrap_period"
    /\ current_clock.wrap_seconds # fixed_clock.wrap_seconds
    /\ Fields(current_clock) = Fields(fixed_clock)
    /\ Fields(current_clock) # Fields(virtual_clock)


\* the step was a call of expend_fixed
ExpendStep == lastOp' \in {"expend_true", "expend_false"}

\* C11: expend_fixed returns true exactly when fixed_accumulated >=
\* fixed_period held before the call; then the accumulator loses exactly one
\* period, fixed_clock gains exactly one period with delta = fixed_period,
\* and delta() and elapsed() report the fixed clock.
C11_ExpendTrue ==
    [][ExpendStep =>
         /\ lastOp' = "expend_true" <=> fixed_accumulated >= FixedPeriod
         /\ lastOp' = "expend_true" =>
              /\ fixed_accumulated' = fixed_accumulated - FixedPeriod
              /\ fixed_clock'.elapsed = fixed_clock.elapsed + FixedPeriod
              /\ fixed_clock'.delta = FixedPeriod
              /\ delta' = FixedPeriod
              /\ elapsed' = fixed_clock'.elapsed]_vars

\* a fixed step expended from an accumulator holding exactly one period
C11_Witness ==
    /\ lastOp = "expend_true"
    /\ fixed_accumulated = 0
    /\ fixed_clock.elapsed = 2 * FixedPeriod
    /\ elapsed = fixed_clock.elapsed
    /\ virtual_clock.elapsed = fixed_clock.elapsed

\* C12: with fixed_accumulated < fixed_period, expend_fixed returns false,
\* leaves the accumulator and fixed_clock as they were and copies
\* virtual_clock into current_clock, so delta() and elapsed() report the
\* virtual clock as it was left by the last update.
C12_ExpendFalse ==
    [][(ExpendStep /\ fixed_accumulated < FixedPeriod) =>
         /\ lastOp' = "expend_false"
         /\ fixed_accumulated' = fixed_accumulated
         /\ fixed_clock' = fixed_clock
         /\ current_clock' = virtual_clock
         /\ delta' = virtual_clock.delta
         /\ elapsed' = seen.elapsed]_vars

\* the drain ends with a remainder and the current track back on virtual
C12_Witness ==
    /\ lastOp = "expend_false"
    /\ fixed_clock.elapsed > 0
    /\ fixed_accumulated > 0
    /\ elapsed = virtual_clock.elapsed
    /\ elapsed > fixed_clock.elapsed

\* the fields of Time, without the bookkeeping of the model
time_fields ==
    <<startup, first_update, last_update, paused, relative_speed,
      wrap_seconds, fixed_accumulated, raw_clock, virtual_clock, fixed_clock,
      current_clock>>

\* C13: a set_wrap_period call with a zero-length period or a period with a
\* sub-second part is refused, and a refused call changes no field of Time.
C13_WrapPeriodRejected ==
    [][\A p \in WrapPeriods :
         (set_wrap_period(p) /\ (p = 0 \/ p % Second # 0)) =>
            /\ lastOp' = "set_wrap_period_panic"
            /\ time_fields' = time_fields]_vars

\* a refused call on a Time whose modulus had been changed before
C13_Witness ==
    /\ lastOp = "set_wrap_period_panic"
    /\ wrap_seconds = 3
    /\ raw_clock.wrap_seconds = 3
    /\ updates > 0

\* C14: a set_relative_speed_f64 call with a negative or non-finite ratio is
\* refused and leaves the stored speed as it was; the stored speed is always
\* finite and >= 0, and the delta of the virtual clock is never negative.
C14_SpeedFiniteNonNegative ==
    [][/\ \A r \in Ratios :
            (set_relative_speed_f64(r) /\ (r[2] = 0 \/ r[1] < 0)) =>
               /\ lastOp' = "set_relative_speed_panic"
               /\ time_fields' = time_fields
       /\ relative_speed'[2] > 0
       /\ relative_speed'[1] >= 0
       /\ virtual_clock'.delta >= 0]_vars

\* a refused call on a Time running at double speed
C14_Witness ==
    /\ lastOp = "set_relative_speed_panic"
    /\ relative_speed = <<2, 1>>
    /\ virtual_clock.delta > 0

\* C15: relative_speed() is 0 whenever the pause flag is set; pause and
\* unpause leave the stored multiplier, every clock and the accumulator as
\* they were, a multiplier set while paused is stored, and after unpause
\* relative_speed() is the stored multiplier.
C15_PauseRoundTrip ==
    [][/\ paused' => relative_speed_f64' = <<0, 1>>
       /\ lastOp' \in {"pause", "unpause"} =>
            /\ relative_speed' = relative_speed
            /\ <<raw_clock, virtual_clock, fixed_clock, current_clock,
                 fixed_accumulated>>'
                 = <<raw_clock, virtual_clock, fixed_clock, current_clock,
                     fixed_accumulated>>
       /\ lastOp' = "pause" => paused'
       /\ lastOp' = "unpause" =>
            (~paused' /\ relative_speed_f64' = relative_speed)
       /\ \A r \in ValidRatios :
            set_relative_speed_f64(r) =>
                (relative_speed' = r /\ paused' = paused)]_vars

\* time resumed at double speed after a paused update
C15_Witness ==
    /\ lastOp = "unpause"
    /\ relative_speed_f64 = <<2, 1>>
    /\ updates = 2
    /\ raw_delta > 0
    /\ virtual_clock.delta = 0

\* C16: the raw track is a function of the timestamps alone, so two runs fed
\* the same timestamps agree on it whatever their pause, speed and
\* expend_fixed calls: every update leaves raw_elapsed() = its timestamp -
\* startup and raw_delta() = its timestamp - the previous one (0 on the
\* first update), and no other operation changes raw_delta() or
\* raw_elapsed().
C16_RawIndependent ==
    [][/\ lastOp' = "update" =>
            /\ raw_elapsed' = previous_instant' - startup
            /\ raw_delta' = IF last_update = {} THEN 0
                            ELSE previous_instant' - previous_instant
       /\ lastOp' # "update" =>
            (raw_delta' = raw_delta /\ raw_elapsed' = raw_elapsed)]_vars

\* a second update at half speed, paused, after a fixed step was expended
C16_Witness ==
    /\ lastOp = "update"
    /\ updates = 2
    /\ paused
    /\ relative_speed = <<1, 2>>
    /\ fixed_clock.elapsed > 0
    /\ raw_delta = MaximumDelta + 1
    /\ raw_elapsed > virtual_clock.elapsed

\* C17: startup never changes; first_update and last_update are None until
\* the first update; the first update sets first_update to its timestamp
\* and nothing changes it afterwards; every update sets last_update to its
\* timestamp and nothing else changes it.
C17_UpdateInstants ==
    [][/\ startup' = startup
       /\ (first_update = {}) = (updates = 0)
       /\ (last_update = {}) = (updates = 0)
       /\ \A g \in Gaps :
            update_with_instant(previous_instant + g) =>
                /\ last_update' = {previous_instant + g}
                /\ first_update' = IF updates = 0
                                   THEN {previous_instant + g}
                                   ELSE first_update
       /\ lastOp' # "update" =>
            (first_update' = first_update /\ last_update' = last_update)]_vars

\* a second update later than the first
C17_Witness ==
    /\ lastOp = "update"
    /\ updates = 2
    /\ first_update # last_update
    /\ first_update # {startup}

\* elapsed_wrapped of a clock is below its modulus
Wrapped(c) == c.elapsed_wrapped < c.wrap_seconds * Second

\* C18 as stated: in every state each of the four clocks has
\* elapsed_wrapped < wrap_seconds seconds.
C18_WrappedBelowModulusAlways ==
    /\ Wrapped(raw_clock)
    /\ Wrapped(virtual_clock)
    /\ Wrapped(fixed_clock)
    /\ Wrapped(current_clock)

\* C18, amended: right after an update raw_clock, virtual_clock and
\* current_clock have elapsed_wrapped < wrap_seconds seconds, and right
\* after an expend_fixed that returned true fixed_clock and current_clock
\* have.
C18_WrappedBelowModulusAfterAdvance ==
    /\ lastOp = "update" =>
         (Wrapped(raw_clock) /\ Wrapped(virtual_clock) /\ Wrapped(current_clock))
    /\ lastOp = "expend_true" =>
         (Wrapped(fixed_clock) /\ Wrapped(current_clock))

\* an update that wraps the raw clock at a modulus of 1 s, set when the raw
\* clock had already run past it
C18_Witness ==
    /\ lastOp = "update"
    /\ updates = 2
    /\ raw_clock.wrap_seconds = 1
    /\ raw_elapsed - raw_delta >= Second
    /\ raw_clock.elapsed_wrapped = raw_elapsed - Second
    /\ current_clock.wrap_seconds = 1

\* C19: an accepted set_wrap_period(W) sets wrap_period() and the modulus of
\* raw_clock, virtual_clock and fixed_clock to W and changes nothing else
\* (no delta, elapsed or elapsed_wrapped of any clock, not current_clock,
\* not the accumulator, the pause flag, the speed or the instants); raw and
\* virtual elapsed_wrapped follow the modulus at the next update, fixed
\* elapsed_wrapped at the next expend_fixed that returns true.
C19_SetWrapPeriod ==
    [][/\ \A p \in WrapPeriods :
            (set_wrap_period(p) /\ p # 0 /\ p % Second = 0) =>
               /\ wrap_period' = p
               /\ raw_clock'.wrap_seconds * Second = p
               /\ virtual_clock'.wrap_seconds * Second = p
               /\ fixed_clock'.wrap_seconds * Second = p
               /\ Fields(raw_clock') = Fields(raw_clock)
               /\ Fields(virtual_clock') = Fields(virtual_clock)
               /\ Fields(fixed_clock') = Fields(fixed_clock)
               /\ current_clock' = current_clock
               /\ <<startup, first_update, last_update, paused,
                    relative_speed, fixed_accumulated>>'
                    = <<startup, first_update, last_update, paused,
                        relative_speed, fixed_accumulated>>
       /\ lastOp' = "update" =>
            /\ raw_clock'.elapsed_wrapped = raw_clock'.elapsed % wrap_period
            /\ virtual_clock'.elapsed_wrapped
                 = virtual_clock'.elapsed % wrap_period
       /\ lastOp' = "expend_true" =>
            fixed_clock'.elapsed_wrapped
              = fixed_clock'.elapsed % wrap_period]_vars

\* the modulus was set to 1 s with the raw clock past 1 s and not yet wrapped
C19_Witness ==
    /\ lastOp = "set_wrap_period"
    /\ wrap_seconds = 1
    /\ raw_clock.elapsed_wrapped > Second
    /\ fixed_clock.elapsed > 0
    /\ fixed_clock.wrap_seconds = 1

\* C20: right after every update current_clock is virtual_clock, so delta()
\* and elapsed() report the virtual clock, also when current_clock held the
\* fixed clock before; and update leaves fixed_clock as it was.
C20_UpdateSelectsVirtual ==
    [][lastOp' = "update" =>
         /\ current_clock' = virtual_clock'
         /\ delta' = virtual_clock'.delta
         /\ elapsed' = virtual_clock'.elapsed
         /\ fixed_clock' = fixed_clock]_vars

\* an update made after fixed steps, with a remainder left in the accumulator
C20_Witness ==
    /\ lastOp = "update"
    /\ updates = 2
    /\ fixed_clock.delta = FixedPeriod
    /\ fixed_accumulated < FixedPeriod
    /\ fixed_accumulated > 0
    /\ delta # fixed_clock.delta
    /\ elapsed # fixed_clock.elapsed

\* C21: an update made while paused adds nothing to fixed_accumulated and
\* nothing to virtual_clock.elapsed; so while the pause lasts an accumulator
\* holding less than one period keeps holding less than one period, and no
\* expend_fixed returns true, however much real time the updates cover.
C21_PausedAccumulatesNothing ==
    [][/\ (lastOp' = "update" /\ paused) =>
            /\ fixed_accumulated' = fixed_accumulated
            /\ virtual_clock'.elapsed = virtual_clock.elapsed
       /\ (paused /\ paused' /\ fixed_accumulated < FixedPeriod) =>
            /\ fixed_accumulated' < FixedPeriod
            /\ lastOp' # "expend_true"]_vars

\* expend_fixed returns false after a paused update that covered one second
C21_Witness ==
    /\ lastOp = "expend_false"
    /\ paused
    /\ updates = 2
    /\ raw_delta = Second
    /\ virtual_clock.delta = 0
    /\ fixed_clock.elapsed > 0
    /\ fixed_accumulated < FixedPeriod

\* C22: in every state virtual_clock.elapsed = fixed_clock.elapsed +
\* fixed_accumulated, the delta of the first update included, and
\* fixed_clock.elapsed <= virtual_clock.elapsed.
C22_VirtualTimeConserved ==
    /\ virtual_clock.elapsed = fixed_clock.elapsed + fixed_accumulated
    /\ fixed_clock.elapsed <= virtual_clock.elapsed

\* a fixed step paid out of the first update, whose delta() was reported zero
C22_Witness ==
    /\ lastOp = "expend_true"
    /\ updates = 1
    /\ virtual_clock.delta = 0
    /\ fixed_clock.elapsed = FixedPeriod
    /\ fixed_accumulated = MaximumDelta - FixedPeriod

\* every drain ends: with no further update, expend_fixed eventually returns
\* false, so it returned true only finitely many times before
DrainTerminates ==
    \A n \in 0..MaxUpdates :
        (updates = n) ~> (updates > n \/ drain.exhausted)

\* C23 as stated: with the positive fixed_period and no update in between, repeated
\* expend_fixed calls return true finitely often and then false; once one has
\* returned false, every further expend_fixed before the next update returns
\* false and changes nothing.
C23_DrainEndsThenChangesNothing ==
    /\ DrainTerminates
    /\ [][(drain.exhausted /\ ExpendStep) =>
            /\ lastOp' = "expend_false"
            /\ time_fields' = time_fields]_vars

\* C23 amended: as above, but a further expend_fixed that returns false
\* copies virtual_clock into current_clock again; that changes nothing unless
\* set_wrap_period ran since the last false, in which case current_clock takes
\* the new modulus. Every other field is left unchanged.
C23_DrainEndsThenOnlyRecopies ==
    /\ DrainTerminates
    /\ [][(drain.exhausted /\ ExpendStep) =>
            /\ lastOp' = "expend_false"
            /\ current_clock' = virtual_clock
            /\ UNCHANGED <<startup, first_update, last_update, paused,
                           relative_speed, wrap_seconds, fixed_accumulated,
                           raw_clock, virtual_clock, fixed_clock>>
            /\ (lastOp = "expend_false" => time_fields' = time_fields)]_vars

\* a drain of two periods has ended and a further call returned false again
C23_Witness ==
    /\ lastOp = "expend_false"
    /\ drain.exhausted
    /\ fixed_clock.elapsed - drain.fixed = 2 * fixed_period
    /\ current_clock = virtual_clock
    /\ current_clock.wrap_seconds # DefaultWrapSeconds

\* expend_fixed calls that returned true since the last update
TrueSinceUpdate == (fixed_clock.elapsed - drain.fixed) \div fixed_period

\* ceil(a / b) for positive b
ceil_div(a, b) == (a + b - 1) \div b

\* C24: when the accumulator held less than one period right before an update
\* and maximum_delta is set, at most ceil(maximum_delta / fixed_period)
\* expend_fixed calls return true in the drain after that update, whatever
\* the real gap and the speed were.
C24_DrainBoundedByMaximumDelta ==
    (drain.drained /\ maximum_delta # {}) =>
        \A m \in maximum_delta : TrueSinceUpdate <= ceil_div(m, fixed_period)

\* the bound is met: a one second gap after a drained accumulator gives
\* exactly ceil(maximum_delta / fixed_period) steps
C24_Witness ==
    /\ lastOp = "expend_true"
    /\ updates = 2
    /\ drain.drained
    /\ raw_delta = Second
    /\ TrueSinceUpdate = ceil_div(MaximumDelta, fixed_period)

\* the wrap modulus a clock holds, as a duration
modulus(c) == c.wrap_seconds * Second

\* C25: expend_fixed, whichever result it returns, leaves raw_clock,
\* virtual_clock, first_update, last_update, the pause flag and the speed
\* unchanged; and in every state wrap_period() equals the wrap modulus held by
\* raw_clock, virtual_clock and fixed_clock.
C25_ExpendFrameAndWrapModulus ==
    /\ [](/\ wrap_period = modulus(raw_clock)
          /\ wrap_period = modulus(virtual_clock)
          /\ wrap_period = modulus(fixed_clock))
    /\ [][ExpendStep =>
            UNCHANGED <<raw_clock, virtual_clock, first_update, last_update,
                        paused, relative_speed>>]_vars

\* an expend_fixed that returned true while paused at half speed, after the
\* wrap period was set to three seconds
C25_Witness ==
    /\ lastOp = "expend_true"
    /\ paused
    /\ relative_speed = <<1, 2>>
    /\ first_update # {}
    /\ wrap_period = 3 * Second
    /\ modulus(fixed_clock) = 3 * Second
    /\ modulus(raw_clock) = 3 * Second

=============================================================================
